---- MODULE Spec2Model ----
(***************************************************************************)
(* A model of twistedchecker.core.runner.Runner:                           *)
(*   - the checker registry of the PyLinter it drives, with                *)
(*     registerCheckers / findUselessCheckers / unregisterChecker /        *)
(*     restrictCheckers                       (specification Spec);        *)
(*   - computeWarnings, the line-by-line report parser                     *)
(*                                            (specification ParseSpec);   *)
(*   - generateDiff: the per-module difference and its serialisation       *)
(*                                            (specification DiffSpec);    *)
(*   - run, with the --diff option callback   (specification RunSpec).     *)
(***************************************************************************)
EXTENDS Integers, Sequences, FiniteSets, TLC

VARIABLES
    \* ---- the registry (PyLinter fields reached through self.linter)
    instantiated,       \* checker instances created so far
    checkersTable,      \* linter._checkers: name -> list of checkers
    reportsTable,       \* the keys of linter._reports
    options_providers,  \* linter.options_providers, a list
    lastCall,           \* the last Runner method called on the registry
    raised,             \* what that call raised: "none" or an exception name
    \* ---- computeWarnings
    parsePc,            \* "loop" while lines remain to be read, then "done"
    result,             \* the text handed to computeWarnings
    lines,              \* the lines of result not yet read
    warnings,           \* the dict being built
    currentModule,      \* None is <<>>, a module name m is <<m>>
    warningsCurrentModule, \* the list of records of the current module
    lastLine,           \* the line the loop body handled last, as <<line>>
    prevRecords,        \* warningsCurrentModule before that line
    \* ---- generateDiff
    diffPc,
    currentErrors,
    previousErrors,
    newErrors,
    allNewErrors,
    diffText,
    reparsed,
    \* ---- run
    runPc,
    args,               \* the arguments not yet consumed by the option parser
    positional,         \* the positional arguments collected so far
    diffOption,         \* None is <<>>, a path p is <<p>>
    outputStream,       \* self.outputStream
    sysStdout,          \* sys.stdout
    reporterOutput,     \* the stream the reporter writes to
    streamForDiff,      \* <<>> before prepareDiff, then <<what it holds>>
    stderrText,         \* what was printed to sys.stderr
    stdoutText,         \* what was written to the real output
    exitCode,           \* SystemExit raised out of run: <<>> none, <<c>> code c
    checkCalls,         \* number of linter.check calls
    helpShown,          \* displayHelp was called
    missingDetected,    \* the option callback found the file missing
    parserExit          \* the code the option parser exited with, <<>> if none

registryVars == <<instantiated, checkersTable, reportsTable,
                  options_providers, lastCall, raised>>
parseVars == <<parsePc, result, lines, warnings, currentModule,
               warningsCurrentModule, lastLine, prevRecords>>
diffVars == <<diffPc, currentErrors, previousErrors, newErrors, allNewErrors,
              diffText, reparsed>>
runVars == <<runPc, args, positional, diffOption, outputStream, sysStdout,
             reporterOutput, streamForDiff, stderrText, stdoutText, exitCode,
             checkCalls,
             helpShown, missingDetected, parserExit>>
vars == <<registryVars, parseVars, diffVars, runVars>>

----------------------------------------------------------------------------
(* Generic helpers for Python lists and dicts.                             *)

Range(s) == {s[i] : i \in 1..Len(s)}

\* list.remove(x): drop the first occurrence of x (the caller checks x is in)
ListRemove(s, x) ==
    LET i == CHOOSE k \in 1..Len(s) : s[k] = x /\ \A j \in 1..(k-1) : s[j] # x
    IN  SubSeq(s, 1, i-1) \o SubSeq(s, i+1, Len(s))

\* the permutations of a finite set, as sequences (an arbitrary iteration order)
Orders(S) ==
    {s \in [1..Cardinality(S) -> S] : \A i, j \in 1..Cardinality(S) :
                                          i # j => s[i] # s[j]}

----------------------------------------------------------------------------
(* The checker registry.                                                   *)

\* how many of the engine's own checker plugins exist
NumBuiltin == 3

\* Runner.checkers: the customized checkers
checkers == <<"header", "modulename">>

allowedMessagesFromPylint ==
    {"F0001", "C0111", "C0103", "C0301", "W0311", "W0312"}

\* message ids the engine's own checkers declare, in the order used to
\* give builtin checker i its message set (bit k of i selects the k-th id)
BuiltinMsgIds == <<"F0001", "E0602", "C0111">>

BuiltinCheckers == {[kind |-> "builtin", idx |-> i] : i \in 1..NumBuiltin}
CustomCheckers == {[kind |-> "custom", idx |-> k] : k \in 1..Len(checkers)}
AllCheckers == BuiltinCheckers \cup CustomCheckers

\* checker.msgs (its keys)
CheckerMsgs(c) ==
    IF c.kind = "custom"
    THEN IF checkers[c.idx] = "header" THEN {"W9001", "W9002"} ELSE {"W9301"}
    ELSE {BuiltinMsgIds[k] : k \in {j \in 1..Len(BuiltinMsgIds) :
                                      (c.idx \div (2^(j-1))) % 2 = 1}}

\* checker.name; several checkers may share one name
CheckerName(c) ==
    IF c.kind = "custom" THEN checkers[c.idx]
    ELSE IF c.idx % 2 = 1 THEN "basic" ELSE "format"

\* the allow-lists handed to restrictCheckers by a caller
AllowLists == SUBSET {"F0001", "E0602", "W9001", "W9301"}

\* A registry value: the three engine structures.
Registry(t, r, o) == [table |-> t, reports |-> r, providers |-> o]

EmptyRegistry == Registry(<<>>, {}, <<>>)

\* every checker found in the name-indexed table
Registered(table) == UNION {Range(table[n]) : n \in DOMAIN table}

\* linter.register_checker(checker): the checker joins the list under its
\* name, gets a report entry when it declares reports, and becomes an
\* options provider
RegisterChecker(reg, c, hasReports) ==
    LET n == CheckerName(c)
        t == IF n \in DOMAIN reg.table
             THEN [reg.table EXCEPT ![n] = Append(@, c)]
             ELSE reg.table @@ (n :> <<c>>)
    IN  Registry(t,
                 IF hasReports THEN reg.reports \cup {c} ELSE reg.reports,
                 Append(reg.providers, c))

\* Runner.unregisterChecker: the outcome is the registry and what was raised
UnregisterOutcome(reg, c) ==
    LET n == CheckerName(c)
    IN  IF n \notin DOMAIN reg.table
        THEN [reg |-> reg, raised |-> "KeyError"]
        ELSE IF c \notin Range(reg.table[n])
        THEN [reg |-> reg, raised |-> "ValueError"]
        ELSE [reg |-> Registry(
                        [reg.table EXCEPT ![n] = ListRemove(@, c)],
                        IF c \in reg.reports THEN reg.reports \ {c}
                                             ELSE reg.reports,
                        IF c \in Range(reg.providers)
                        THEN ListRemove(reg.providers, c)
                        ELSE reg.providers),
              raised |-> "none"]

\* a variant: a checker counts as useful only when all its messages are allowed
IsUselessUnlessAllAllowed(c, allowedMessages) ==
    ~(CheckerMsgs(c) \subseteq allowedMessages)

\* the test of findUselessCheckers on one checker
IsUseless(c, allowedMessages) ==
    CheckerMsgs(c) \cap allowedMessages = {}

\* Runner.findUselessCheckers: the checkers of every name, in the dict's
\* iteration order, that generate no allowed message
RECURSIVE UselessOfNames(_, _, _)
UselessOfNames(table, names, allowedMessages) ==
    IF names = <<>> THEN <<>>
    ELSE LET Test(c) == IsUseless(c, allowedMessages)
         IN  SelectSeq(table[Head(names)], Test)
               \o UselessOfNames(table, Tail(names), allowedMessages)

findUselessCheckers(table, allowedMessages) ==
    UselessOfNames(table, CHOOSE o \in Orders(DOMAIN table) : TRUE,
                   allowedMessages)

\* the loop of restrictCheckers: unregister each, stop at the first raise
RECURSIVE UnregisterAll(_, _)
UnregisterAll(reg, useless) ==
    IF useless = <<>> THEN [reg |-> reg, raised |-> "none"]
    ELSE LET o == UnregisterOutcome(reg, Head(useless))
         IN  IF o.raised # "none" THEN o
             ELSE UnregisterAll(o.reg, Tail(useless))

\* Runner.restrictCheckers
RestrictOutcome(reg, allowedMessages) ==
    UnregisterAll(reg, findUselessCheckers(reg.table, allowedMessages))

\* Runner.registerCheckers: instantiate and register each customized
\* checker, then restrict to the allowed messages
RECURSIVE RegisterCustom(_, _, _)
RegisterCustom(reg, k, withReports) ==
    IF k > Len(checkers) THEN reg
    ELSE LET c == [kind |-> "custom", idx |-> k]
         IN  RegisterCustom(RegisterChecker(reg, c, c \in withReports),
                            k + 1, withReports)

RegisterCheckersAllowed ==
    allowedMessagesFromPylint
      \cup UNION {CheckerMsgs(c) : c \in CustomCheckers}

\* linter.load_default_plugins(): the plugins present, in index order
RECURSIVE LoadDefaultPlugins(_, _, _, _)
LoadDefaultPlugins(reg, i, present, withReports) ==
    IF i > NumBuiltin THEN reg
    ELSE LET c == [kind |-> "builtin", idx |-> i]
         IN  LoadDefaultPlugins(
                 IF c \in present
                 THEN RegisterChecker(reg, c, c \in withReports) ELSE reg,
                 i + 1, present, withReports)

\* Runner.__init__, as far as the registry goes
AfterInit(present, withReports) ==
    LET loaded == LoadDefaultPlugins(EmptyRegistry, 1, present, withReports)
        custom == RegisterCustom(loaded, 1, withReports)
    IN  [before |-> Registered(custom.table),
         out |-> RestrictOutcome(custom, RegisterCheckersAllowed)]

RegistryInit ==
    \E present \in SUBSET BuiltinCheckers :
      \E withReports \in SUBSET (present \cup CustomCheckers) :
        LET a == AfterInit(present, withReports)
        IN  /\ instantiated = present \cup CustomCheckers
            /\ checkersTable = a.out.reg.table
            /\ reportsTable = a.out.reg.reports
            /\ options_providers = a.out.reg.providers
            /\ raised = a.out.raised
            /\ lastCall = [op |-> "restrictCheckers",
                           allowed |-> RegisterCheckersAllowed,
                           checker |-> <<>>,
                           before |-> a.before]

CurrentRegistry == Registry(checkersTable, reportsTable, options_providers)

SetRegistry(o) ==
    /\ checkersTable' = o.reg.table
    /\ reportsTable' = o.reg.reports
    /\ options_providers' = o.reg.providers
    /\ raised' = o.raised

\* a caller invokes runner.restrictCheckers(allowedMessages)
RestrictCheckers ==
    \E allowedMessages \in AllowLists :
        /\ SetRegistry(RestrictOutcome(CurrentRegistry, allowedMessages))
        /\ lastCall' = [op |-> "restrictCheckers",
                        allowed |-> allowedMessages,
                        checker |-> <<>>,
                        before |-> Registered(checkersTable)]
        /\ UNCHANGED instantiated

\* a caller invokes runner.unregisterChecker(checker)
UnregisterChecker ==
    \E c \in instantiated :
        /\ SetRegistry(UnregisterOutcome(CurrentRegistry, c))
        /\ lastCall' = [op |-> "unregisterChecker",
                        allowed |-> {},
                        checker |-> <<c>>,
                        before |-> Registered(checkersTable)]
        /\ UNCHANGED instantiated

\* the registry while another part of the Runner is exercised
RegistryIdle ==
    /\ instantiated = {}
    /\ checkersTable = <<>>
    /\ reportsTable = {}
    /\ options_providers = <<>>
    /\ raised = "none"
    /\ lastCall = [op |-> "none", allowed |-> {}, checker |-> <<>>,
                   before |-> {}]

----------------------------------------------------------------------------
(* computeWarnings.  A text is a sequence of atoms: the module-header      *)
(* prefix, a message id with its colon, a word of free text, a line break. *)

\* the longest report text tried
MaxTextLen == 7

prefixModuleName == "************* Module "
NL == "\n"
MessageIdStart == "W9001:"
Word == "foo"

Atoms == {prefixModuleName, MessageIdStart, Word, NL}

\* every text of at most n atoms
TextsUpTo(n) == UNION {[1..k -> Atoms] : k \in 0..n}

\* iterating StringIO.StringIO(result): each line with its line break, the
\* last one without when the text does not end in one
RECURSIVE ReadLines(_)
ReadLines(text) ==
    IF text = <<>> THEN <<>>
    ELSE IF \E i \in 1..Len(text) : text[i] = NL
    THEN LET i == CHOOSE k \in 1..Len(text) :
                    text[k] = NL /\ \A j \in 1..(k-1) : text[j] # NL
         IN  <<SubSeq(text, 1, i)>> \o ReadLines(SubSeq(text, i+1, Len(text)))
    ELSE <<text>>

\* line.strip("\n"): line breaks are dropped at both ends
RECURSIVE StripNL(_)
StripNL(line) ==
    IF line = <<>> THEN <<>>
    ELSE IF Head(line) = NL THEN StripNL(Tail(line))
    ELSE IF line[Len(line)] = NL THEN StripNL(SubSeq(line, 1, Len(line)-1))
    ELSE line

\* line.startswith(self.prefixModuleName)
StartsWithPrefix(line) == line # <<>> /\ Head(line) = prefixModuleName

\* re.search(self.regexLineStart, line) with "^[WCEFR]\d{4}\:"
regexLineStart(line) == line # <<>> /\ Head(line) = MessageIdStart

\* line.replace(self.prefixModuleName, ""): every occurrence goes
RemovePrefix(line) ==
    LET Keep(a) == a # prefixModuleName IN SelectSeq(line, Keep)

\* the truth value of currentModule: None and "" are false
Truthy(module) == module # <<>> /\ module[1] # <<>>

\* warnings[currentModule] = set(warningsCurrentModule)
SaveModule(w, module, records) ==
    IF module[1] \in DOMAIN w
    THEN [w EXCEPT ![module[1]] = Range(records)]
    ELSE w @@ (module[1] :> Range(records))

ParseState(w, m, r) ==
    [warnings |-> w, currentModule |-> m, warningsCurrentModule |-> r]

\* a variant: the line joins the first record of the module, not the last
ContinuationLineToFirst(records, line) ==
    IF records # <<>>
    THEN [records EXCEPT ![1] = @ \o <<NL>> \o line]
    ELSE records

\* the branch taken for a line that is neither a header nor a record start
ContinuationLine(records, line) ==
    IF records # <<>>
    THEN [records EXCEPT ![Len(records)] = @ \o <<NL>> \o line]
    ELSE records

\* the body of the loop of computeWarnings for one line read
ProcessLine(st, rawLine) ==
    LET line == StripNL(rawLine)
    IN  IF StartsWithPrefix(line)
        THEN ParseState(
                 IF Truthy(st.currentModule)
                 THEN SaveModule(st.warnings, st.currentModule,
                                 st.warningsCurrentModule)
                 ELSE st.warnings,
                 <<RemovePrefix(line)>>,
                 <<>>)
        ELSE IF regexLineStart(line)
        THEN ParseState(st.warnings, st.currentModule,
                        Append(st.warningsCurrentModule, line))
        ELSE ParseState(st.warnings, st.currentModule,
                        ContinuationLine(st.warningsCurrentModule, line))

\* a variant: the last module is not saved
FinishParseNoSave(st) == st.warnings

\* what follows the loop: save the warnings of the last module
FinishParse(st) ==
    IF Truthy(st.currentModule)
    THEN SaveModule(st.warnings, st.currentModule, st.warningsCurrentModule)
    ELSE st.warnings

RECURSIVE ParseLines(_, _)
ParseLines(st, ls) ==
    IF ls = <<>> THEN FinishParse(st)
    ELSE ParseLines(ProcessLine(st, Head(ls)), Tail(ls))

\* Runner.computeWarnings as a whole
computeWarnings(text) ==
    ParseLines(ParseState(<<>>, <<>>, <<>>), ReadLines(text))

ParseInit ==
    /\ result \in TextsUpTo(MaxTextLen)
    /\ lines = ReadLines(result)
    /\ warnings = <<>>
    /\ currentModule = <<>>
    /\ warningsCurrentModule = <<>>
    /\ lastLine = <<>>
    /\ prevRecords = <<>>
    /\ parsePc = "loop"

\* one turn of the loop
ParseLine ==
    /\ parsePc = "loop"
    /\ lines # <<>>
    /\ LET st == ProcessLine(ParseState(warnings, currentModule,
                                        warningsCurrentModule), Head(lines))
       IN  /\ warnings' = st.warnings
           /\ currentModule' = st.currentModule
           /\ warningsCurrentModule' = st.warningsCurrentModule
    /\ lastLine' = <<StripNL(Head(lines))>>
    /\ prevRecords' = warningsCurrentModule
    /\ lines' = Tail(lines)
    /\ UNCHANGED <<parsePc, result>>

\* the end of the input
ParseEnd ==
    /\ parsePc = "loop"
    /\ lines = <<>>
    /\ warnings' = FinishParse(ParseState(warnings, currentModule,
                                          warningsCurrentModule))
    /\ parsePc' = "done"
    /\ UNCHANGED <<result, lines, currentModule, warningsCurrentModule,
                   lastLine, prevRecords>>

ParseIdle ==
    /\ result = <<>>
    /\ lines = <<>>
    /\ warnings = <<>>
    /\ currentModule = <<>>
    /\ warningsCurrentModule = <<>>
    /\ lastLine = <<>>
    /\ prevRecords = <<>>
    /\ parsePc = "idle"

----------------------------------------------------------------------------
(* generateDiff.  The two dicts it works on are what computeWarnings       *)
(* returns for the checking result and for the comparing file.             *)

\* how many distinct warning records the two reports draw from
NumRecords == 3

ModuleNames == {<<Word>>, <<Word, Word>>}

RecordPool == << <<MessageIdStart>>,
                 <<MessageIdStart, NL>>,
                 <<MessageIdStart, Word>>,
                 <<MessageIdStart, NL, Word>> >>

Records == {RecordPool[((i - 1) % Len(RecordPool)) + 1] : i \in 1..NumRecords}

\* the dicts computeWarnings can return over these names and records
Reports ==
    UNION {[ms -> SUBSET Records] : ms \in SUBSET ModuleNames}

\* dict.get(key, default)
DictGet(d, key, default) == IF key \in DOMAIN d THEN d[key] ELSE default

\* a variant: the difference taken in both directions
ModuleDifferenceSymmetric(current, previous, modulename) ==
    (current[modulename] \ DictGet(previous, modulename, {}))
      \cup (DictGet(previous, modulename, {}) \ current[modulename])

\* the errors of one module: currentErrors[m] - previousErrors.get(m, set())
ModuleDifference(current, previous, modulename) ==
    current[modulename] \ DictGet(previous, modulename, {})

\* the first loop of generateDiff, over the modules in iteration order
RECURSIVE NewErrorsLoop(_, _, _, _)
NewErrorsLoop(acc, current, previous, order) ==
    IF order = <<>> THEN acc
    ELSE LET modulename == Head(order)
             errors == ModuleDifference(current, previous, modulename)
         IN  NewErrorsLoop(IF errors # {}
                           THEN acc @@ (modulename :> errors) ELSE acc,
                           current, previous, Tail(order))

ComputeNewErrors(current, previous) ==
    NewErrorsLoop(<<>>, current, previous,
                  CHOOSE o \in Orders(DOMAIN current) : TRUE)

\* "\n".join(list)
RECURSIVE JoinLines(_)
JoinLines(list) ==
    IF list = <<>> THEN <<>>
    ELSE IF Len(list) = 1 THEN list[1]
    ELSE list[1] \o <<NL>> \o JoinLines(Tail(list))

\* the second loop of generateDiff: for each module the header line, then
\* its errors; moduleOrder and recordOrder are the iteration orders of the
\* dict and of each set
RECURSIVE AllNewErrors(_, _, _)
AllNewErrors(errors, moduleOrder, recordOrder) ==
    IF moduleOrder = <<>> THEN <<>>
    ELSE <<<<prefixModuleName>> \o Head(moduleOrder)>>
           \o recordOrder[Head(moduleOrder)]
           \o AllNewErrors(errors, Tail(moduleOrder), recordOrder)

RecordOrders(errors) ==
    {f \in [DOMAIN errors -> UNION {Orders(errors[m]) : m \in DOMAIN errors}] :
        \A m \in DOMAIN errors : f[m] \in Orders(errors[m])}

DiffInit ==
    /\ currentErrors \in Reports
    /\ previousErrors \in Reports
    /\ newErrors = <<>>
    /\ allNewErrors = <<>>
    /\ diffText = <<>>
    /\ reparsed = <<>>
    /\ diffPc = "parsed"

\* generateDiff up to newErrors
Difference ==
    /\ diffPc = "parsed"
    /\ newErrors' = ComputeNewErrors(currentErrors, previousErrors)
    /\ diffPc' = "compared"
    /\ UNCHANGED <<currentErrors, previousErrors, allNewErrors, diffText,
                   reparsed>>

\* generateDiff from newErrors to the string it returns
Format ==
    /\ diffPc = "compared"
    /\ \E moduleOrder \in Orders(DOMAIN newErrors) :
         \E recordOrder \in RecordOrders(newErrors) :
            /\ allNewErrors' = AllNewErrors(newErrors, moduleOrder, recordOrder)
            /\ diffText' = JoinLines(allNewErrors')
    /\ diffPc' = "formatted"
    /\ UNCHANGED <<currentErrors, previousErrors, newErrors, reparsed>>

\* the returned string read back by computeWarnings
Reparse ==
    /\ diffPc = "formatted"
    /\ reparsed' = computeWarnings(diffText)
    /\ diffPc' = "reparsed"
    /\ UNCHANGED <<currentErrors, previousErrors, newErrors, allNewErrors,
                   diffText>>

DiffIdle ==
    /\ currentErrors = <<>>
    /\ previousErrors = <<>>
    /\ newErrors = <<>>
    /\ allNewErrors = <<>>
    /\ diffText = <<>>
    /\ reparsed = <<>>
    /\ diffPc = "idle"

----------------------------------------------------------------------------
(* run.  The command line is a list of tokens: a path or module to check,  *)
(* --diff with a file that exists, --diff with one that does not, and      *)
(* options on which the engine's parser exits with status 0, 1 or 2.       *)

\* the longest command line tried
MaxArgs == 3

Tokens == {"module", "diffExisting", "diffMissing", "exit0", "exit1",
           "exit2"}

ArgLists == UNION {[1..k -> Tokens] : k \in 0..MaxArgs}

ExistingFiles == {"old.txt"}

\* the value of a --diff option
DiffValue(token) == IF token = "diffExisting" THEN "old.txt" ELSE "missing.txt"

\* the status the engine's parser exits with on a token
ParserExitCode(token) ==
    IF token = "exit0" THEN <<0>> ELSE IF token = "exit1" THEN <<1>> ELSE <<2>>

\* os.path.exists(val)
PathExists(val) == val \in ExistingFiles

\* self.errorResultNotExist % val
errorResultNotExist(val) == <<"Error: Result file '", val, "' does not exist.">>

\* a variant: the missing file is reported but the run goes on
OptionCallbackDiffNoExit(val, oldOption) ==
    IF ~PathExists(val)
    THEN [stderr |-> <<errorResultNotExist(val)>>, exits |-> FALSE,
          code |-> <<>>, diffOption |-> <<val>>]
    ELSE [stderr |-> <<>>, exits |-> FALSE, code |-> <<>>,
          diffOption |-> <<val>>]

\* Runner._optionCallbackDiff: what it prints to sys.stderr, whether it
\* calls sys.exit() (no argument: the code is None, written <<>>), and the
\* diffOption it leaves
OptionCallbackDiff(val, oldOption) ==
    IF ~PathExists(val)
    THEN [stderr |-> <<errorResultNotExist(val)>>, exits |-> TRUE,
          code |-> <<>>, diffOption |-> oldOption]
    ELSE [stderr |-> <<>>, exits |-> FALSE, code |-> <<>>,
          diffOption |-> <<val>>]

\* a variant: every failure status is turned into 32
RemapExitAnyFailure(code) ==
    IF code # <<>> /\ code # <<0>> THEN <<32>> ELSE code

\* the except clause of run: a SystemExit with code 2 leaves with code 32
RemapExit(code) == IF code = <<2>> THEN <<32>> ELSE code

\* the status of a process that ends on SystemExit(code); None is success
ExitStatus(code) == IF code = <<>> THEN 0 ELSE code[1]

\* write one item to a stream
WriteTo(stream, item) ==
    /\ stdoutText' = IF stream = "real" THEN Append(stdoutText, item)
                     ELSE stdoutText
    /\ streamForDiff' = IF stream = "buffer"
                        THEN <<Append(streamForDiff[1], item)>>
                        ELSE streamForDiff

RunInit ==
    /\ args \in ArgLists
    /\ positional = <<>>
    /\ diffOption = <<>>
    /\ outputStream = "real"
    /\ sysStdout = "real"
    /\ reporterOutput = "initial"
    /\ streamForDiff = <<>>
    /\ stderrText = <<>>
    /\ stdoutText = <<>>
    /\ exitCode = <<>>
    /\ checkCalls = 0
    /\ helpShown = FALSE
    /\ missingDetected = FALSE
    /\ parserExit = <<>>
    /\ runPc = "called"

\* run, first statement: the reporter writes to self.outputStream
SetReporterOutput ==
    /\ runPc = "called"
    /\ reporterOutput' = IF outputStream # "None" THEN outputStream
                         ELSE reporterOutput
    /\ runPc' = "parsing"
    /\ UNCHANGED <<args, positional, diffOption, outputStream, sysStdout,
                   streamForDiff, stderrText, stdoutText, exitCode,
                   checkCalls, helpShown, missingDetected, parserExit>>

\* load_command_line_configuration meets a path or module
ParsePositional ==
    /\ runPc = "parsing"
    /\ args # <<>>
    /\ Head(args) = "module"
    /\ positional' = Append(positional, Head(args))
    /\ args' = Tail(args)
    /\ UNCHANGED <<runPc, diffOption, outputStream, sysStdout,
                   reporterOutput, streamForDiff, stderrText, stdoutText,
                   exitCode, checkCalls, helpShown, missingDetected,
                   parserExit>>

\* load_command_line_configuration meets --diff: the callback runs, and the
\* SystemExit it may raise passes through the except clause of run
ParseDiffOption ==
    /\ runPc = "parsing"
    /\ args # <<>>
    /\ Head(args) \in {"diffExisting", "diffMissing"}
    /\ LET cb == OptionCallbackDiff(DiffValue(Head(args)), diffOption)
       IN  /\ stderrText' = stderrText \o cb.stderr
           /\ diffOption' = cb.diffOption
           /\ missingDetected' = (missingDetected
                                    \/ ~PathExists(DiffValue(Head(args))))
           /\ IF cb.exits
              THEN /\ parserExit' = <<cb.code>>
                   /\ exitCode' = <<RemapExit(cb.code)>>
                   /\ runPc' = "exited"
              ELSE UNCHANGED <<parserExit, exitCode, runPc>>
    /\ args' = Tail(args)
    /\ UNCHANGED <<positional, outputStream, sysStdout, reporterOutput,
                   streamForDiff, stdoutText, checkCalls, helpShown>>

\* the engine's parser exits by itself: a bad option (2), --version (0), ...
ParserExits ==
    /\ runPc = "parsing"
    /\ args # <<>>
    /\ Head(args) \in {"exit0", "exit1", "exit2"}
    /\ parserExit' = <<ParserExitCode(Head(args))>>
    /\ exitCode' = <<RemapExit(ParserExitCode(Head(args)))>>
    /\ runPc' = "exited"
    /\ args' = Tail(args)
    /\ UNCHANGED <<positional, diffOption, outputStream, sysStdout,
                   reporterOutput, streamForDiff, stderrText, stdoutText,
                   checkCalls, helpShown, missingDetected>>

\* load_command_line_configuration returns the positional arguments
ParseReturns ==
    /\ runPc = "parsing"
    /\ args = <<>>
    /\ runPc' = "parsed"
    /\ UNCHANGED <<args, positional, diffOption, outputStream, sysStdout,
                   reporterOutput, streamForDiff, stderrText, stdoutText,
                   exitCode, checkCalls, helpShown, missingDetected,
                   parserExit>>

\* if not args: self.displayHelp()
DisplayHelp ==
    /\ runPc = "parsed"
    /\ IF positional = <<>>
       THEN /\ helpShown' = TRUE
            /\ WriteTo(outputStream, "help")
            /\ runPc' = "helped"
       ELSE /\ runPc' = "helped"
            /\ UNCHANGED <<helpShown, stdoutText, streamForDiff>>
    /\ UNCHANGED <<args, positional, diffOption, outputStream, sysStdout,
                   reporterOutput, stderrText, exitCode, checkCalls,
                   missingDetected, parserExit>>

\* if self.diffOption: self.prepareDiff()
PrepareDiff ==
    /\ runPc = "helped"
    /\ IF diffOption # <<>>
       THEN /\ streamForDiff' = << <<>> >>
            /\ reporterOutput' = "buffer"
       ELSE UNCHANGED <<streamForDiff, reporterOutput>>
    /\ runPc' = "prepared"
    /\ UNCHANGED <<args, positional, diffOption, outputStream, sysStdout,
                   stderrText, stdoutText, exitCode, checkCalls, helpShown,
                   missingDetected, parserExit>>

\* self.linter.check(args): the engine writes its report to the reporter's
\* stream
LinterCheck ==
    /\ runPc = "prepared"
    /\ checkCalls' = checkCalls + 1
    /\ WriteTo(reporterOutput, "report")
    /\ runPc' = "checked"
    /\ UNCHANGED <<args, positional, diffOption, outputStream, sysStdout,
                   reporterOutput, stderrText, exitCode, helpShown,
                   missingDetected, parserExit>>

\* if self.diffOption: self.showDiffResults()
ShowDiffResults ==
    /\ runPc = "checked"
    /\ IF diffOption # <<>>
       THEN WriteTo(outputStream, "diff")
       ELSE UNCHANGED <<stdoutText, streamForDiff>>
    /\ runPc' = "returned"
    /\ UNCHANGED <<args, positional, diffOption, outputStream, sysStdout,
                   reporterOutput, stderrText, exitCode, checkCalls,
                   helpShown, missingDetected, parserExit>>

RunIdle ==
    /\ args = <<>>
    /\ positional = <<>>
    /\ diffOption = <<>>
    /\ outputStream = "real"
    /\ sysStdout = "real"
    /\ reporterOutput = "initial"
    /\ streamForDiff = <<>>
    /\ stderrText = <<>>
    /\ stdoutText = <<>>
    /\ exitCode = <<>>
    /\ checkCalls = 0
    /\ helpShown = FALSE
    /\ missingDetected = FALSE
    /\ parserExit = <<>>
    /\ runPc = "idle"

----------------------------------------------------------------------------
(* The specifications.                                                     *)

Init == RegistryInit /\ ParseIdle /\ DiffIdle /\ RunIdle

Next ==
    \/ RestrictCheckers /\ UNCHANGED <<parseVars, diffVars, runVars>>
    \/ UnregisterChecker /\ UNCHANGED <<parseVars, diffVars, runVars>>

Spec == Init /\ [][Next]_vars

ParseSpecInit == RegistryIdle /\ ParseInit /\ DiffIdle /\ RunIdle

ParseNext ==
    \/ ParseLine /\ UNCHANGED <<registryVars, diffVars, runVars>>
    \/ ParseEnd /\ UNCHANGED <<registryVars, diffVars, runVars>>

ParseSpec == ParseSpecInit /\ [][ParseNext]_vars

DiffSpecInit == RegistryIdle /\ ParseIdle /\ DiffInit /\ RunIdle

DiffNext ==
    \/ Difference /\ UNCHANGED <<registryVars, parseVars, runVars>>
    \/ Format /\ UNCHANGED <<registryVars, parseVars, runVars>>
    \/ Reparse /\ UNCHANGED <<registryVars, parseVars, runVars>>

DiffSpec == DiffSpecInit /\ [][DiffNext]_vars

RunSpecInit == RegistryIdle /\ ParseIdle /\ DiffIdle /\ RunInit

RunNext ==
    \/ SetReporterOutput /\ UNCHANGED <<registryVars, parseVars, diffVars>>
    \/ ParsePositional /\ UNCHANGED <<registryVars, parseVars, diffVars>>
    \/ ParseDiffOption /\ UNCHANGED <<registryVars, parseVars, diffVars>>
    \/ ParserExits /\ UNCHANGED <<registryVars, parseVars, diffVars>>
    \/ ParseReturns /\ UNCHANGED <<registryVars, parseVars, diffVars>>
    \/ DisplayHelp /\ UNCHANGED <<registryVars, parseVars, diffVars>>
    \/ PrepareDiff /\ UNCHANGED <<registryVars, parseVars, diffVars>>
    \/ LinterCheck /\ UNCHANGED <<registryVars, parseVars, diffVars>>
    \/ ShowDiffResults /\ UNCHANGED <<registryVars, parseVars, diffVars>>

RunSpec == RunSpecInit /\ [][RunNext]_vars

----------------------------------------------------------------------------
(* Properties of the registry (checked under Spec).                        *)

InTable(c) == c \in Registered(checkersTable)

AbsentEverywhere(c) ==
    /\ ~InTable(c)
    /\ c \notin reportsTable
    /\ c \notin Range(options_providers)

\* C1: after restrictCheckers(A) completes, a checker that was registered
\* before the call is still in the name-indexed table exactly when its
\* message set intersects A, and every checker whose message set does not
\* intersect A is absent from the table, the report table and the
\* option-provider list.
C1_RestrictionCorrect ==
    lastCall.op = "restrictCheckers" =>
        /\ raised = "none"
        /\ \A c \in lastCall.before :
              InTable(c) <=> (CheckerMsgs(c) \cap lastCall.allowed # {})
        /\ \A c \in AllCheckers :
              (CheckerMsgs(c) \cap lastCall.allowed = {}) => AbsentEverywhere(c)

\* a restriction by a caller's allow-list that removed one checker that was
\* registered and kept another
C1_Witness ==
    /\ lastCall.op = "restrictCheckers"
    /\ lastCall.allowed \in AllowLists
    /\ \E c \in lastCall.before : ~InTable(c) /\ c \in instantiated
    /\ \E c \in lastCall.before : InTable(c) /\ c \in reportsTable

\* C2: unregisterChecker(checker) never raises, whichever of the three
\* structures hold the checker, and leaves the checker in none of them.
C2_UnregisterNeverRaises ==
    lastCall.op = "unregisterChecker" =>
        /\ raised = "none"
        /\ AbsentEverywhere(lastCall.checker[1])

----------------------------------------------------------------------------
(* Properties of generateDiff (checked under DiffSpec).                    *)

Baseline(m) == IF m \in DOMAIN previousErrors THEN previousErrors[m] ELSE {}

C4_RoundTrip ==
    diffPc = "reparsed" => reparsed = newErrors

----------------------------------------------------------------------------
(* Properties of computeWarnings (checked under ParseSpec).                *)

\* the lines of the text, as the loop sees them
TextLines ==
    LET raw == ReadLines(result)
    IN  [i \in 1..Len(raw) |-> StripNL(raw[i])]

HeaderLines == {i \in DOMAIN TextLines : StartsWithPrefix(TextLines[i])}

OpenerLines == {i \in DOMAIN TextLines : ~StartsWithPrefix(TextLines[i])
                                           /\ regexLineStart(TextLines[i])}

\* the first header or record start after line i, or the end of the text
NextBoundary(i, S) ==
    LET later == {j \in S : j > i}
    IN  IF later = {} THEN Len(TextLines) + 1
        ELSE CHOOSE j \in later : \A k \in later : j <= k

\* the record opened at line j: that line and the lines up to the next
\* header or record start, joined with line breaks
RecordOpenedAt(j) ==
    JoinLines(SubSeq(TextLines, j,
                     NextBoundary(j, HeaderLines \cup OpenerLines) - 1))

\* the records opened between header i and the next header
RecordsAfterHeader(i) ==
    {RecordOpenedAt(j) : j \in {k \in OpenerLines :
                                  i < k /\ k < NextBoundary(i, HeaderLines)}}

\* the name a header line gives: the line without the prefix text
HeaderName(i) == RemovePrefix(TextLines[i])

\* C5 as stated: every module name that follows the prefix in a header line
\* is mapped to the records opened between that header and the next one.
C5_EveryHeaderIsMapped ==
    parsePc = "done" =>
        \A i \in HeaderLines :
            /\ Tail(TextLines[i]) \in DOMAIN warnings
            /\ warnings[Tail(TextLines[i])] = RecordsAfterHeader(i)

\* C5, amended: the result has exactly the non-empty names obtained from the
\* header lines by deleting the prefix text wherever it occurs; each is
\* mapped to the records opened between the last header of that name and
\* the next header or the end of the input; records before the first header
\* are in no module, and a text without header gives the empty report.
C5_LastHeaderOfEachNameIsMapped ==
    parsePc = "done" =>
        /\ DOMAIN warnings = {HeaderName(i) : i \in HeaderLines} \ {<<>>}
        /\ \A n \in DOMAIN warnings :
              LET same == {i \in HeaderLines : HeaderName(i) = n}
                  last == CHOOSE i \in same : \A k \in same : k <= i
              IN  warnings[n] = RecordsAfterHeader(last)
        /\ HeaderLines = {} => warnings = <<>>

\* a text with a record before the first header, a name used by two
\* headers of which the first has a record, all read
C5_Witness ==
    /\ parsePc = "done"
    /\ \E i, k \in HeaderLines :
          /\ i < k
          /\ HeaderName(i) = HeaderName(k)
          /\ HeaderName(i) \in DOMAIN warnings
          /\ RecordsAfterHeader(i) # {}
          /\ warnings[HeaderName(i)] = {}

\* the loop has just handled a line that is neither header nor record start
OtherLineHandled ==
    /\ lastLine # <<>>
    /\ ~StartsWithPrefix(lastLine[1])
    /\ ~regexLineStart(lastLine[1])

\* C10 as stated: such a line is appended with a line break to the latest
\* record when it is not empty, is discarded when no record is open, and
\* changes no record when it is empty.
C10_EmptyLineChangesNothing ==
    OtherLineHandled =>
        IF lastLine[1] = <<>> \/ prevRecords = <<>>
        THEN warningsCurrentModule = prevRecords
        ELSE /\ Len(warningsCurrentModule) = Len(prevRecords)
             /\ \A k \in 1..(Len(prevRecords) - 1) :
                   warningsCurrentModule[k] = prevRecords[k]
             /\ warningsCurrentModule[Len(prevRecords)] =
                   prevRecords[Len(prevRecords)] \o <<NL>> \o lastLine[1]

\* C10, amended: such a line, empty or not, is appended with a line break
\* to the most recently opened record of the current module (an empty line
\* adds the line break alone); when no record is open it is discarded.
C10_OtherLineJoinsLatestRecord ==
    OtherLineHandled =>
        IF prevRecords = <<>>
        THEN warningsCurrentModule = <<>>
        ELSE /\ Len(warningsCurrentModule) = Len(prevRecords)
             /\ \A k \in 1..(Len(prevRecords) - 1) :
                   warningsCurrentModule[k] = prevRecords[k]
             /\ warningsCurrentModule[Len(prevRecords)] =
                   prevRecords[Len(prevRecords)] \o <<NL>> \o lastLine[1]

\* an empty line has just been joined to the second record of a module
C10_Witness ==
    /\ OtherLineHandled
    /\ lastLine[1] = <<>>
    /\ Len(prevRecords) = 2
    /\ currentModule # <<>>
    /\ warningsCurrentModule[2] = prevRecords[2] \o <<NL>>

----------------------------------------------------------------------------
(* Properties of run (checked under RunSpec).                              *)

\* C6: once --diff names a file that does not exist, the engine is never
\* evaluated: the detection ends the run, no linter.check call was or will
\* be made, and the error stream holds the fatal message for that path.
C6_MissingBaselineStopsBeforeCheck ==
    /\ ("diffMissing" \in Range(args) /\ runPc \in {"called", "parsing"})
          => checkCalls = 0
    /\ missingDetected =>
          /\ runPc = "exited"
          /\ checkCalls = 0
          /\ "report" \notin Range(stdoutText)
          /\ stderrText =
               << <<"Error: Result file '", "missing.txt", "' does not exist.">> >>

\* a run with something to check ended on the missing file
C6_Witness ==
    /\ missingDetected
    /\ runPc = "exited"
    /\ positional # <<>>

\* C7: the run that ends on a missing --diff file ends with a non-zero
\* exit status.
C7_MissingBaselineExitsNonZero ==
    (missingDetected /\ runPc = "exited") => ExitStatus(exitCode[1]) # 0

\* C8: when no positional argument is left after option parsing, help is
\* displayed and run stops: linter.check is not called, no diff is written.
C8_HelpStopsTheRun ==
    helpShown =>
        /\ checkCalls = 0
        /\ "diff" \notin Range(stdoutText)

\* C9: when the engine's parser ends run with status 2, run ends with
\* status 32; with any other status, run ends with that status; in both
\* cases run ends there and the engine is not evaluated.
C9_ExitTwoBecomesThirtyTwo ==
    parserExit # <<>> =>
        /\ runPc = "exited"
        /\ checkCalls = 0
        /\ parserExit[1] = <<2>> => exitCode = << <<32>> >>
        /\ parserExit[1] # <<2>> => exitCode = parserExit

\* a bad option after a module to check: status 2 became 32
C9_Witness ==
    /\ parserExit = << <<2>> >>
    /\ exitCode = << <<32>> >>
    /\ positional # <<>>
    /\ runPc = "exited"

\* C11: whenever run ends - on return, with or without --diff, or on a
\* SystemExit from bad arguments or a missing --diff file - the stream the
\* engine's reporter writes to is the real output stream again; in diff
\* mode it is back before the diff is written.
C11_SinkRestoredWhenRunEnds ==
    /\ runPc \in {"returned", "exited"} => reporterOutput = outputStream
    /\ "diff" \in Range(stdoutText) => reporterOutput = outputStream

====
